---- MODULE Spec2Model ----
(***************************************************************************)
(* nuvoispy: host side of the N76E003 ISP-over-UART protocol.              *)
(* Packets are sequences of bytes (naturals below 256), indexed from 1, so *)
(* Python's tx[i] is tx[i+1] here.  The Python bit operations on the       *)
(* non-negative integers of the program are modelled arithmetically:       *)
(*   x & 0xff = x % 256, x & 0xffff = x % 65536, x >> 8 = x \div 256,      *)
(*   x << 8 = x * 256.                                                     *)
(***************************************************************************)
EXTENDS Integers, Sequences, FiniteSets, TLC

\* ------------------------------------------------------------------------
\* Program constants (nuvoispy.py lines 35-45)
PACKSIZE == 64
N76E003_DEVID == 13904
CMD_UPDATE_APROM == 160
CMD_UPDATE_CONFIG == 161
CMD_READ_CONFIG == 162
CMD_SYNC_PACKNO == 164
CMD_GET_FWVER == 166
CMD_RUN_APROM == 171
CMD_CONNECT == 174
CMD_GET_DEVICEID == 177

\* line 83: the number of failed polls after which send_cmd re-sends tx
RESEND_AFTER == 5
\* lines 135, 139: the image bytes carried by the UPDATE_APROM packet
FIRST_BLOCK == 48
\* lines 144-151: the image bytes carried by every later block
BLOCK == 56

CommandCodes ==
  {CMD_UPDATE_APROM, CMD_UPDATE_CONFIG, CMD_READ_CONFIG, CMD_SYNC_PACKNO,
   CMD_GET_FWVER, CMD_RUN_APROM, CMD_CONNECT, CMD_GET_DEVICEID}

\* ------------------------------------------------------------------------
\* Bounds of the model
MaxCalls == 4        \* cmd_packet calls explored per start value (codec)
LongLen == 258       \* length of the long byte string whose sum passes 2^16
MaxConnect == 3      \* CONNECT attempts explored
MaxTries == 7        \* failed polls explored inside one send_cmd call
MaxFaults == 1       \* replies the channel may lose, corrupt or truncate
MaxFlen == 170       \* image lengths explored by the upload specification
MaxBlocks == 6       \* packets built per image by the packet-building specification

\* ------------------------------------------------------------------------
\* Python helpers

Min(a, b) == IF a < b THEN a ELSE b

\* bytes(n): n zero bytes
ZeroBytes(n) == [i \in 1..n |-> 0]

\* s[a:b] for 0 <= a, 0 <= b: Python clamps both ends to len(s)
Slice(s, a, b) ==
  LET lo == Min(a, Len(s))
      hi == Min(b, Len(s))
  IN  IF hi <= lo THEN << >> ELSE SubSeq(s, lo + 1, hi)

\* ------------------------------------------------------------------------
\* verify_chksum (lines 57-65)

\* lines 58-60: txsum = 0; for i in range(len(tx)): txsum += tx[i]
\* TxSumRun(tx, from, n) is what iterations from+1 .. from+n add to txsum;
\* TxSumUpTo(tx, n) is txsum after the first n iterations, the iterations
\* taken in runs of at most 64 so that the evaluation stays shallow.
RECURSIVE TxSumRun(_, _, _)
TxSumRun(tx, from, n) ==
  IF n = 0 THEN 0 ELSE TxSumRun(tx, from, n - 1) + tx[from + n]

RECURSIVE TxSumUpTo(_, _)
TxSumUpTo(tx, n) ==
  IF n <= 64 THEN TxSumRun(tx, 0, n)
  ELSE TxSumUpTo(tx, n - 64) + TxSumRun(tx, n - 64, 64)

\* a loop that stops one byte early: range(len(tx) - 1)
TxSumShortLoop(tx) == IF Len(tx) = 0 THEN 0 ELSE TxSumUpTo(tx, Len(tx) - 1)

TxSum(tx) == TxSumUpTo(tx, Len(tx))

\* the two reply bytes read big-endian: (rx[0] << 8) + rx[1]
RxSumBigEndian(rx) == (rx[1] * 256) + rx[2]

\* line 63: rxsum = (rx[1] << 8) + rx[0]
RxSum(rx) == (rx[2] * 256) + rx[1]

\* the comparison made of rxsum with itself
VerifySelfCompare(tx, rx) == RxSum(rx) = RxSum(rx)

\* lines 62, 65: txsum &= 0xffff; return (rxsum == txsum)
verify_chksum(tx, rx) == RxSum(rx) = (TxSum(tx) % 65536)

\* ------------------------------------------------------------------------
\* cmd_packet (lines 67-70)

\* an increment that is skipped: the counter is left as it was
NextSeqStuck(seq) == seq

\* line 69: seq_num = seq_num + 1 (a Python integer: it does not wrap)
NextSeq(seq) == seq + 1

\* line 70, with seq the value of seq_num after line 69:
\* bytes([cmd]) + bytes(3) + bytes([seq & 0xff, (seq >> 8) & 0xff]) + bytes(PACKSIZE-5)
CmdPacketBytes(cmd, seq) ==
  <<cmd>> \o ZeroBytes(3) \o <<seq % 256, (seq \div 256) % 256>>
          \o ZeroBytes(PACKSIZE - 5)

\* the packet numbered with the counter as it was before the increment
CmdPacketStale(cmd, seq) == CmdPacketBytes(cmd, seq)

\* the packet cmd_packet(cmd) returns when called with seq_num = seq
cmd_packet(cmd, seq) == CmdPacketBytes(cmd, NextSeq(seq))

\* ------------------------------------------------------------------------
\* get_deviceid (lines 125-127)

\* the identity read big-endian: (rx[8] << 8) + rx[9]
DeviceIdBigEndian(r) == (r[9] * 256) + r[10]

\* line 127: (rx[9] << 8) + rx[8]
DeviceId(r) == (r[10] * 256) + r[9]

\* any identity is taken for the supported chip
IdentityAlwaysAccepted(id) == TRUE

\* line 175: get_deviceid() == N76E003_DEVID
IdentityAccepted(id) == id = N76E003_DEVID

\* ------------------------------------------------------------------------
\* update_aprom (lines 129-153)

\* the length field with its high byte left zero
FirstPacketLowByteOnly(d) ==
  <<CMD_UPDATE_APROM>> \o ZeroBytes(11)
    \o <<Len(d) % 256, 0>> \o ZeroBytes(2)
    \o Slice(d, 0, FIRST_BLOCK)

\* line 135: bytes([CMD_UPDATE_APROM]) + bytes(11)
\*           + bytes([flen & 0xff, (flen >> 8) & 0xff]) + bytes(2) + data[0:48]
FirstPacket(d) ==
  <<CMD_UPDATE_APROM>> \o ZeroBytes(11)
    \o <<Len(d) % 256, (Len(d) \div 256) % 256>> \o ZeroBytes(2)
    \o Slice(d, 0, FIRST_BLOCK)

\* the last block sliced from the start of the image: data[0:flen-ipos]
BlockPacketTailFromStart(d, i) ==
  IF (i + BLOCK) < Len(d)
  THEN ZeroBytes(8) \o Slice(d, i, i + BLOCK)
  ELSE ZeroBytes(8) \o Slice(d, 0, Len(d) - i) \o ZeroBytes(BLOCK - (Len(d) - i))

\* lines 144-148: the block built with the cursor at i
BlockPacket(d, i) ==
  IF (i + BLOCK) < Len(d)
  THEN ZeroBytes(8) \o Slice(d, i, i + BLOCK)
  ELSE ZeroBytes(8) \o Slice(d, i, Len(d)) \o ZeroBytes(BLOCK - (Len(d) - i))

\* progress_bar, line 51: percent = float(value) / endvalue raises
\* ZeroDivisionError when endvalue is 0
ProgressRaises(value, endvalue) == endvalue = 0

\* the loop condition as ipos < flen
LoopContinuesStrict(i, flen) == i < flen

\* line 141: while (ipos <= flen)
LoopContinues(i, flen) == i <= flen

\* ------------------------------------------------------------------------
\* Exceptions (lines 95, 101-104, 178, 186-193)

\* lines 101-104: the exception classes the module defines
DefinedExceptions == {"NoDevice", "ChecksumEerror"}

\* raise <name>: the class of that name when the module defines it, otherwise
\* the NameError of the failed lookup
Raised(name) == IF name \in DefinedExceptions THEN name ELSE "NameError"

\* a handler that catches every exception
CaughtAny(e) == TRUE

\* lines 187-191: the only handler is "except NoDevice"
Caught(e) == e = "NoDevice"

\* lines 186-193: the port after exception e left main(): line 193 runs only
\* when the handler caught e, otherwise the program ends with the traceback
OpenAfterRaise(e, o) == IF Caught(e) THEN FALSE ELSE o

\* ------------------------------------------------------------------------
\* State

VARIABLES
  pc,       \* where the program is: "connect", "connect_wait", the caller of
            \* the running send_cmd ("sync", "devid", "update", "block"),
            \* "exit"; "codec" and "chk" when a function is exercised alone
  seq_num,  \* line 47: the global sequence counter
  tx,       \* the packet being sent (cmd in connect_req and update_aprom)
  rx,       \* the last reply read
  tries,    \* send_cmd's retry counter
  data,     \* update_aprom: the image read from the file
  ipos,     \* update_aprom: the cursor
  open,     \* whether the serial port is open (ser.close() not yet called)
  err,      \* the exception that ended the program, "none" when none did
  inbuf,    \* channel: bytes received and not yet read
  wire,     \* channel: packets written and not yet answered by the target
  devid,    \* target: the identity it reports
  faults,   \* channel: replies lost, corrupted or truncated so far
  hist,     \* history: every write to the channel and every accepted reply
  blocks,   \* history: the packets update_aprom handed to send_cmd
  ncalls,   \* history: number of cmd_packet calls so far
  ok,       \* result of the last verify_chksum call
  wasOk,    \* result of the verify_chksum call before it
  op,       \* the last operation performed
  arg       \* the argument of the last operation (a command code, an index)

vars == <<pc, seq_num, tx, rx, tries, data, ipos, open, err, inbuf, wire,
          devid, faults, hist, blocks, ncalls, ok, wasOk, op, arg>>

sessionVars == <<rx, tries, data, ipos, open, err, inbuf, wire, devid, faults,
                 hist, blocks>>

\* the session's variables before main() has done anything
SessionIdle ==
  /\ rx = << >> /\ tries = 0 /\ data = << >> /\ ipos = 0
  /\ open = TRUE /\ err = "none"
  /\ inbuf = << >> /\ wire = << >> /\ devid = N76E003_DEVID /\ faults = 0
  /\ hist = << >> /\ blocks = << >>

\* the 16-bit field at bytes 4-5 of a packet, little-endian
SeqField(p) == p[5] + 256 * p[6]

\* ------------------------------------------------------------------------
\* cmd_packet exercised alone.  The counter starts at 0 (line 47); the other
\* start values are the states reached after that many earlier calls, which
\* is what ncalls records.
StartSeqs == {0, 254, 65534, 131070}

InitCodec ==
  /\ pc = "codec"
  /\ \E s \in StartSeqs : seq_num = s /\ ncalls = s
  /\ tx = << >>
  /\ ok = FALSE /\ wasOk = FALSE /\ op = "init" /\ arg = 0
  /\ SessionIdle

CodecCall(c) ==
  /\ pc = "codec"
  /\ \E s \in StartSeqs : s <= ncalls /\ ncalls < s + MaxCalls
  /\ seq_num' = NextSeq(seq_num)
  /\ tx' = cmd_packet(c, seq_num)
  /\ ncalls' = ncalls + 1
  /\ op' = "cmd_packet" /\ arg' = c
  /\ UNCHANGED <<pc, ok, wasOk>>
  /\ UNCHANGED sessionVars

NextCodec == \E c \in CommandCodes : CodecCall(c)

SpecCodec == InitCodec /\ [][NextCodec]_vars

\* C1: every packet cmd_packet(c) returns is exactly PACKSIZE bytes long:
\* byte 0 is c, bytes 1-3 are zero, bytes 4-5 hold the sequence number
\* little-endian and every remaining byte is zero.
C1_CmdPacketLayout ==
  op = "cmd_packet" =>
    /\ Len(tx) = PACKSIZE
    /\ tx[1] = arg
    /\ \A i \in 2..4 : tx[i] = 0
    /\ tx[5] = seq_num % 256 /\ tx[6] = (seq_num \div 256) % 256
    /\ \A i \in 7..Len(tx) : tx[i] = 0

\* C2: the first packet built carries sequence number 1, every call advances
\* the counter by one, the n-th packet's field is n mod 2^16, and each field
\* is the successor mod 2^16 of the one before, also from 0xFFFF to 0.
C2_SeqFieldCounts ==
  /\ [](op = "cmd_packet" =>
          /\ seq_num = ncalls
          /\ SeqField(tx) = ncalls % 65536
          /\ (ncalls = 1 => SeqField(tx) = 1))
  /\ [][(op = "cmd_packet" /\ op' = "cmd_packet") =>
          /\ seq_num' = seq_num + 1
          /\ SeqField(tx') = (SeqField(tx) + 1) % 65536]_vars

\* the 65536th packet has been built: its field wrapped to 0
C2_Witness == op = "cmd_packet" /\ ncalls = 65536 /\ SeqField(tx) = 0

\* ------------------------------------------------------------------------
\* verify_chksum exercised alone: on a sent byte string and a reply, then
\* again after one bit of tx was flipped or one byte of rx beyond the first
\* two was replaced.

\* v with bit b inverted (v ^ (1 << b))
FlipBit(v, b) == IF (v \div (2 ^ b)) % 2 = 1 THEN v - 2 ^ b ELSE v + 2 ^ b

\* the sum of the bytes of s, taken from the tail
RECURSIVE SumRange(_, _, _)
SumRange(s, a, b) ==
  IF a > b THEN 0
  ELSE IF a = b THEN s[a]
  ELSE LET m == (a + b) \div 2 IN SumRange(s, a, m) + SumRange(s, m + 1, b)

\* the sum of the bytes of s, by halving
SumAll(s) == SumRange(s, 1, Len(s))

\* Sent byte strings: command packets, a data block of 0xff bytes, the
\* 16-byte UPDATE_APROM packet of an empty image, and a string long enough
\* for its sum to pass 2^16.
TxSamples ==
  {CmdPacketBytes(CMD_CONNECT, 1), CmdPacketBytes(CMD_GET_DEVICEID, 65535),
   ZeroBytes(8) \o [i \in 1..56 |-> 255],
   <<CMD_UPDATE_APROM>> \o ZeroBytes(15),
   [i \in 1..LongLen |-> 255]}

\* Replies to t: a full packet announcing the sum of t, the sum plus one, the
\* sum with its two bytes swapped, the low byte alone, or the sum before it
\* is reduced mod 2^16 (low byte, and what is left above it); and the bare
\* two bytes announcing the sum.
RxSamples(t) ==
  LET s == SumAll(t)
      heads == {<<s % 256, (s \div 256) % 256>>,
                <<(s + 1) % 256, ((s + 1) \div 256) % 256>>,
                <<(s \div 256) % 256, s % 256>>,
                <<s % 256, 0>>,
                <<s % 256, s \div 256>>}
  IN  {<<s % 256, (s \div 256) % 256>>}
        \cup {h \o ZeroBytes(PACKSIZE - 2) : h \in heads}

InitChk ==
  /\ pc = "chk"
  /\ tx \in TxSamples
  /\ rx \in RxSamples(tx)
  /\ seq_num = 0 /\ ncalls = 0
  /\ ok = FALSE /\ wasOk = FALSE /\ op = "init" /\ arg = 0
  /\ tries = 0 /\ data = << >> /\ ipos = 0 /\ open = TRUE /\ err = "none"
  /\ inbuf = << >> /\ wire = << >> /\ devid = N76E003_DEVID /\ faults = 0
  /\ hist = << >> /\ blocks = << >>

chkFrame == <<pc, seq_num, tries, data, ipos, open, err, inbuf, wire, devid,
              faults, hist, blocks, ncalls>>

ChkVerify ==
  /\ pc = "chk" /\ op = "init"
  /\ ok' = verify_chksum(tx, rx)
  /\ op' = "verify"
  /\ UNCHANGED <<tx, rx, wasOk, arg>>
  /\ UNCHANGED chkFrame

ChkFlipTx(i, b) ==
  /\ pc = "chk" /\ op = "verify"
  /\ tx' = [tx EXCEPT ![i] = FlipBit(tx[i], b)]
  /\ wasOk' = ok
  /\ ok' = verify_chksum(tx', rx)
  /\ op' = "flip" /\ arg' = i
  /\ UNCHANGED rx
  /\ UNCHANGED chkFrame

ChkPokeRx(j, v) ==
  /\ pc = "chk" /\ op = "verify"
  /\ rx[j] # v
  /\ rx' = [rx EXCEPT ![j] = v]
  /\ wasOk' = ok
  /\ ok' = verify_chksum(tx, rx')
  /\ op' = "poke" /\ arg' = j
  /\ UNCHANGED tx
  /\ UNCHANGED chkFrame

NextChk ==
  \/ ChkVerify
  \/ \E i \in 1..Len(tx), b \in 0..7 : ChkFlipTx(i, b)
  \/ \E j \in 3..Len(rx), v \in {0, 1, 255} : ChkPokeRx(j, v)

SpecChk == InitChk /\ [][NextChk]_vars

\* C3: verify_chksum(tx, rx) is true exactly when the sum of all bytes of tx
\* mod 65536 equals rx[0] + 256*rx[1], and replacing a byte of rx beyond the
\* first two does not change the result.
C3_VerifyIffSum ==
  /\ op \in {"verify", "flip", "poke"} =>
       (ok <=> (SumAll(tx) % 65536 = rx[1] + 256 * rx[2]))
  /\ op = "poke" => (ok <=> wasOk)

\* a reply was accepted for a byte string whose sum passes 2^16, and one was
\* accepted again after a byte beyond the first two was replaced
C3_Witness ==
  \/ op = "verify" /\ ok /\ SumAll(tx) >= 65536
  \/ op = "poke" /\ ok /\ wasOk /\ arg > 2

\* C4: when a reply is accepted for tx, it is rejected, unchanged, for every
\* tx' that differs from tx in exactly one bit of one byte.
C4_BitFlipRejected == (op = "flip" /\ wasOk) => ~ok

\* a bit of the last byte of an accepted packet was flipped, and the
\* unchanged reply was rejected
C4_Witness == op = "flip" /\ wasOk /\ ~ok /\ arg = Len(tx)

\* ------------------------------------------------------------------------
\* The channel and the target

\* The reply of the target to packet p: the checksum of p in bytes 0-1, and
\* for GET_DEVICEID the identity in bytes 8-9, both little-endian.
Reply(p, id) ==
  LET s == SumAll(p) % 65536
      body == IF p[1] = CMD_GET_DEVICEID
              THEN ZeroBytes(6) \o <<id % 256, id \div 256>> \o ZeroBytes(PACKSIZE - 10)
              ELSE ZeroBytes(PACKSIZE - 2)
  IN  <<s % 256, s \div 256>> \o body

\* the same reply with a damaged checksum
BadReply(p, id) ==
  LET r == Reply(p, id) IN [r EXCEPT ![1] = (r[1] + 1) % 256]

\* history entries
Wr(p) == [ev |-> "write", pkt |-> p, reply |-> << >>]
Acc(p, r) == [ev |-> "accept", pkt |-> p, reply |-> r]

\* the identities the target may report: the supported chip, its two bytes
\* swapped, and zero
DevIds == {N76E003_DEVID, 20534, 0}

\* the image of n bytes with step k: byte i (from 0) is k*(i+1) mod 256
Image(n, k) == [i \in 1..n |-> (k * i) % 256]

\* the images of the session specification: the empty one, and one of a
\* first block plus one 56-byte block
SessionImages == {Image(0, 1), Image(104, 1)}

\* the images of the upload specification: every length up to MaxFlen, with
\* bytes 1, 2, 3, ... and bytes 7, 14, 21, ... (mod 256)
UploadImages == {Image(n, k) : n \in 0..MaxFlen, k \in {1, 7}}

\* the positions inside send_cmd, named by its caller
Callers == {"sync", "devid", "update", "block"}

\* ser.read(PACKSIZE) when at least PACKSIZE bytes are waiting
Front == SubSeq(inbuf, 1, PACKSIZE)
Rest == SubSeq(inbuf, PACKSIZE + 1, Len(inbuf))

\* ------------------------------------------------------------------------
\* The session: main() from line 172 on, the port open

Init ==
  /\ pc = "connect"
  /\ seq_num = 0 /\ ncalls = 0
  /\ tx = << >> /\ rx = << >> /\ tries = 0
  /\ data \in SessionImages /\ ipos = 0
  /\ open = TRUE /\ err = "none"
  /\ inbuf = << >> /\ wire = << >>
  /\ devid \in DevIds /\ faults = 0
  /\ hist = << >> /\ blocks = << >>
  /\ ok = FALSE /\ wasOk = FALSE /\ op = "init" /\ arg = 0

\* any reply that is not empty is checked
ConnectLengthNonZero(n) == n # 0

\* line 118: the loop repeats unless nbytes == PACKSIZE
ConnectLengthOk(n) == n = PACKSIZE

\* connect_req, lines 111-113: build a CONNECT packet, write it, sleep
ConnectSend ==
  /\ pc = "connect" /\ ncalls < MaxConnect
  /\ LET cmd == cmd_packet(CMD_CONNECT, seq_num)
     IN  /\ tx' = cmd
         /\ wire' = Append(wire, cmd)
         /\ hist' = Append(hist, Wr(cmd))
  /\ seq_num' = NextSeq(seq_num) /\ ncalls' = ncalls + 1
  /\ pc' = "connect_wait"
  /\ op' = "connect_send" /\ arg' = CMD_CONNECT
  /\ UNCHANGED <<rx, tries, data, ipos, open, err, inbuf, devid, faults,
                 blocks, ok, wasOk>>

\* connect_req, lines 115-121: read whatever arrived; wrong length or wrong
\* checksum, so the loop repeats
ConnectRetry ==
  /\ pc = "connect_wait"
  /\ ~(ConnectLengthOk(Len(inbuf)) /\ verify_chksum(tx, inbuf))
  /\ rx' = inbuf /\ inbuf' = << >>
  /\ IF ConnectLengthOk(Len(inbuf))
     THEN ok' = FALSE /\ wasOk' = ok
     ELSE UNCHANGED <<ok, wasOk>>
  /\ pc' = "connect"
  /\ op' = "connect_retry" /\ arg' = Len(inbuf)
  /\ UNCHANGED <<seq_num, tx, tries, data, ipos, open, err, wire, devid,
                 faults, hist, blocks, ncalls>>

\* connect_req, lines 115-123: exactly PACKSIZE bytes with the checksum of
\* cmd; then line 174: send_cmd(cmd_packet(CMD_SYNC_PACKNO)) up to its loop
ConnectAccept ==
  /\ pc = "connect_wait"
  /\ ConnectLengthOk(Len(inbuf)) /\ verify_chksum(tx, inbuf)
  /\ rx' = inbuf /\ inbuf' = << >>
  /\ ok' = TRUE /\ wasOk' = ok
  /\ LET cmd == cmd_packet(CMD_SYNC_PACKNO, seq_num)
     IN  /\ tx' = cmd
         /\ wire' = Append(wire, cmd)
         /\ hist' = hist \o <<Acc(tx, inbuf), Wr(cmd)>>
  /\ seq_num' = NextSeq(seq_num) /\ ncalls' = ncalls + 1
  /\ tries' = 0
  /\ pc' = "sync"
  /\ op' = "connected" /\ arg' = CMD_SYNC_PACKNO
  /\ UNCHANGED <<data, ipos, open, err, devid, faults, blocks>>

\* send_cmd, lines 78-86: fewer than PACKSIZE bytes waiting
\* the retry counter starts again at zero after each re-send
PollShortResetting ==
  /\ pc \in Callers
  /\ Len(inbuf) < PACKSIZE
  /\ tries < MaxTries
  /\ IF tries + 1 > RESEND_AFTER
     THEN tries' = 0 /\ wire' = Append(wire, tx) /\ hist' = Append(hist, Wr(tx))
     ELSE tries' = tries + 1 /\ UNCHANGED <<wire, hist>>
  /\ op' = "poll_short" /\ arg' = Len(inbuf)
  /\ UNCHANGED <<pc, seq_num, tx, rx, data, ipos, open, err, inbuf, devid,
                 faults, blocks, ncalls, ok, wasOk>>

PollShort ==
  /\ pc \in Callers
  /\ Len(inbuf) < PACKSIZE
  /\ tries < MaxTries
  /\ tries' = tries + 1
  /\ IF tries + 1 > RESEND_AFTER
     THEN wire' = Append(wire, tx) /\ hist' = Append(hist, Wr(tx))
     ELSE UNCHANGED <<wire, hist>>
  /\ op' = "poll_short" /\ arg' = Len(inbuf)
  /\ UNCHANGED <<pc, seq_num, tx, rx, data, ipos, open, err, inbuf, devid,
                 faults, blocks, ncalls, ok, wasOk>>

\* send_cmd, lines 88-91: the read returns fewer than PACKSIZE bytes although
\* PACKSIZE were announced (the channel timed out inside the read)
PollShortRead(k) ==
  /\ pc \in Callers
  /\ Len(inbuf) >= PACKSIZE
  /\ faults < MaxFaults
  /\ rx' = SubSeq(inbuf, 1, k)
  /\ inbuf' = SubSeq(inbuf, k + 1, Len(inbuf))
  /\ faults' = faults + 1
  /\ op' = "short_read" /\ arg' = k
  /\ UNCHANGED <<pc, seq_num, tx, tries, data, ipos, open, err, wire, devid,
                 hist, blocks, ncalls, ok, wasOk>>

\* send_cmd, lines 88-95: a full-size reply fails the checksum; "raise
\* ChecksumError" ends main()
PollChecksumFail ==
  /\ pc \in Callers
  /\ Len(inbuf) >= PACKSIZE
  /\ ~verify_chksum(tx, Front)
  /\ rx' = Front /\ inbuf' = Rest
  /\ ok' = FALSE /\ wasOk' = ok
  /\ err' = Raised("ChecksumError")
  /\ open' = OpenAfterRaise(Raised("ChecksumError"), open)
  /\ pc' = "exit"
  /\ op' = "checksum_fail" /\ arg' = tx[1]
  /\ UNCHANGED <<seq_num, tx, tries, data, ipos, wire, devid, faults, hist,
                 blocks, ncalls>>

\* send_cmd returns the SYNC_PACKNO reply (lines 88-99); then get_deviceid,
\* line 126: send_cmd(cmd_packet(CMD_GET_DEVICEID)) up to its loop
SyncAccepted ==
  /\ pc = "sync"
  /\ Len(inbuf) >= PACKSIZE /\ verify_chksum(tx, Front)
  /\ rx' = Front /\ inbuf' = Rest
  /\ ok' = TRUE /\ wasOk' = ok
  /\ LET cmd == cmd_packet(CMD_GET_DEVICEID, seq_num)
     IN  /\ tx' = cmd
         /\ wire' = Append(wire, cmd)
         /\ hist' = hist \o <<Acc(tx, Front), Wr(cmd)>>
  /\ seq_num' = NextSeq(seq_num) /\ ncalls' = ncalls + 1
  /\ tries' = 0
  /\ pc' = "devid"
  /\ op' = "synced" /\ arg' = CMD_GET_DEVICEID
  /\ UNCHANGED <<data, ipos, open, err, devid, faults, blocks>>

\* send_cmd returns the GET_DEVICEID reply, the identity is the expected one
\* (lines 127, 175-176); then update_aprom, lines 130-138: build the
\* UPDATE_APROM packet and call send_cmd up to its loop
DevidAccepted ==
  /\ pc = "devid"
  /\ Len(inbuf) >= PACKSIZE /\ verify_chksum(tx, Front)
  /\ IdentityAccepted(DeviceId(Front))
  /\ rx' = Front /\ inbuf' = Rest
  /\ ok' = TRUE /\ wasOk' = ok
  /\ LET cmd == FirstPacket(data)
     IN  /\ tx' = cmd
         /\ wire' = Append(wire, cmd)
         /\ hist' = hist \o <<Acc(tx, Front), Wr(cmd)>>
         /\ blocks' = <<cmd>>
  /\ ipos' = 0
  /\ tries' = 0
  /\ pc' = "update"
  /\ op' = "identified" /\ arg' = DeviceId(Front)
  /\ UNCHANGED <<seq_num, data, open, err, devid, faults, ncalls>>

\* send_cmd returns the GET_DEVICEID reply, the identity is another one:
\* raise NoDevice (line 178), caught at line 190, ser.close() at line 193
DevidMismatch ==
  /\ pc = "devid"
  /\ Len(inbuf) >= PACKSIZE /\ verify_chksum(tx, Front)
  /\ ~IdentityAccepted(DeviceId(Front))
  /\ rx' = Front /\ inbuf' = Rest
  /\ ok' = TRUE /\ wasOk' = ok
  /\ hist' = Append(hist, Acc(tx, Front))
  /\ err' = Raised("NoDevice")
  /\ open' = OpenAfterRaise(Raised("NoDevice"), open)
  /\ pc' = "exit"
  /\ op' = "no_device" /\ arg' = DeviceId(Front)
  /\ UNCHANGED <<seq_num, tx, tries, data, ipos, wire, devid, faults, blocks,
                 ncalls>>

\* the cursor after the block whose reply send_cmd just returned
\* (line 139: ipos += 48, line 151: ipos += 56)
Advanced == IF pc = "update" THEN ipos + FIRST_BLOCK ELSE ipos + BLOCK

\* update_aprom: send_cmd returns a block's reply, the cursor advances and
\* the loop body runs (lines 139-150): progress_bar(ipos, flen), which does
\* not raise here, flen being at least ipos >= 48; build the next block,
\* call send_cmd
UploadBlock ==
  /\ pc \in {"update", "block"}
  /\ Len(inbuf) >= PACKSIZE /\ verify_chksum(tx, Front)
  /\ LoopContinues(Advanced, Len(data))
  /\ ~ProgressRaises(Advanced, Len(data))
  /\ rx' = Front /\ inbuf' = Rest
  /\ ok' = TRUE /\ wasOk' = ok
  /\ ipos' = Advanced
  /\ LET cmd == BlockPacket(data, Advanced)
     IN  /\ tx' = cmd
         /\ wire' = Append(wire, cmd)
         /\ hist' = hist \o <<Acc(tx, Front), Wr(cmd)>>
         /\ blocks' = Append(blocks, cmd)
  /\ tries' = 0
  /\ pc' = "block"
  /\ op' = "block_sent" /\ arg' = Advanced
  /\ UNCHANGED <<seq_num, data, open, err, devid, faults, ncalls>>

\* update_aprom: send_cmd returns the last block's reply, the loop ends and
\* progress_bar(flen, flen) at line 153 divides by flen = 0: the
\* ZeroDivisionError ends main()
UploadCrash ==
  /\ pc \in {"update", "block"}
  /\ Len(inbuf) >= PACKSIZE /\ verify_chksum(tx, Front)
  /\ ~LoopContinues(Advanced, Len(data))
  /\ ProgressRaises(Len(data), Len(data))
  /\ rx' = Front /\ inbuf' = Rest
  /\ ok' = TRUE /\ wasOk' = ok
  /\ ipos' = Advanced
  /\ hist' = Append(hist, Acc(tx, Front))
  /\ err' = "ZeroDivisionError"
  /\ open' = OpenAfterRaise("ZeroDivisionError", open)
  /\ pc' = "exit"
  /\ op' = "progress_crash" /\ arg' = Len(data)
  /\ UNCHANGED <<seq_num, tx, tries, data, wire, devid, faults, blocks,
                 ncalls>>

\* the RUN_APROM packet written as soon as the last block has been written,
\* its reply not awaited (ser.write in place of send_cmd for that block)
UploadFinishNoWait ==
  /\ pc \in {"update", "block"}
  /\ ~LoopContinues(Advanced, Len(data))
  /\ ~ProgressRaises(Len(data), Len(data))
  /\ ipos' = Advanced
  /\ LET cmd == cmd_packet(CMD_RUN_APROM, seq_num)
     IN  /\ tx' = cmd
         /\ wire' = Append(wire, cmd)
         /\ hist' = Append(hist, Wr(cmd))
  /\ seq_num' = NextSeq(seq_num) /\ ncalls' = ncalls + 1
  /\ open' = FALSE
  /\ pc' = "exit"
  /\ op' = "done" /\ arg' = CMD_RUN_APROM
  /\ UNCHANGED <<rx, inbuf, ok, wasOk, tries, data, err, devid, faults,
                 blocks>>

\* update_aprom: send_cmd returns the last block's reply and the loop ends
\* (lines 139-153); main, lines 181-184: write the RUN_APROM packet, close
\* the port; line 193: close it again
UploadFinish ==
  /\ pc \in {"update", "block"}
  /\ Len(inbuf) >= PACKSIZE /\ verify_chksum(tx, Front)
  /\ ~LoopContinues(Advanced, Len(data))
  /\ ~ProgressRaises(Len(data), Len(data))
  /\ rx' = Front /\ inbuf' = Rest
  /\ ok' = TRUE /\ wasOk' = ok
  /\ ipos' = Advanced
  /\ LET cmd == cmd_packet(CMD_RUN_APROM, seq_num)
     IN  /\ tx' = cmd
         /\ wire' = Append(wire, cmd)
         /\ hist' = hist \o <<Acc(tx, Front), Wr(cmd)>>
  /\ seq_num' = NextSeq(seq_num) /\ ncalls' = ncalls + 1
  /\ open' = FALSE
  /\ pc' = "exit"
  /\ op' = "done" /\ arg' = CMD_RUN_APROM
  /\ UNCHANGED <<tries, data, err, devid, faults, blocks>>

hostVars == <<pc, seq_num, tx, rx, tries, data, ipos, open, err, hist,
              blocks, ncalls, ok, wasOk>>

\* the target answers the oldest unanswered packet
DevReply ==
  /\ pc # "exit" /\ wire # << >>
  /\ inbuf' = inbuf \o Reply(Head(wire), devid)
  /\ wire' = Tail(wire)
  /\ op' = "reply" /\ arg' = Head(wire)[1]
  /\ UNCHANGED <<devid, faults>>
  /\ UNCHANGED hostVars

\* the oldest unanswered packet is lost, or the target is not listening
DevLose ==
  /\ pc # "exit" /\ wire # << >>
  /\ faults < MaxFaults
  /\ wire' = Tail(wire)
  /\ faults' = faults + 1
  /\ op' = "lost" /\ arg' = Head(wire)[1]
  /\ UNCHANGED <<devid, inbuf>>
  /\ UNCHANGED hostVars

\* the reply to the oldest unanswered packet arrives with a damaged checksum
DevCorrupt ==
  /\ pc # "exit" /\ wire # << >>
  /\ faults < MaxFaults
  /\ inbuf' = inbuf \o BadReply(Head(wire), devid)
  /\ wire' = Tail(wire)
  /\ faults' = faults + 1
  /\ op' = "corrupt" /\ arg' = Head(wire)[1]
  /\ UNCHANGED devid
  /\ UNCHANGED hostVars

\* only the first k bytes of the reply to the oldest unanswered packet arrive
DevTruncate(k) ==
  /\ pc # "exit" /\ wire # << >>
  /\ faults < MaxFaults
  /\ inbuf' = inbuf \o SubSeq(Reply(Head(wire), devid), 1, k)
  /\ wire' = Tail(wire)
  /\ faults' = faults + 1
  /\ op' = "truncated" /\ arg' = k
  /\ UNCHANGED devid
  /\ UNCHANGED hostVars

Next ==
  \/ ConnectSend
  \/ ConnectRetry
  \/ ConnectAccept
  \/ PollShort
  \/ PollShortRead(PACKSIZE - 1)
  \/ PollChecksumFail
  \/ SyncAccepted
  \/ DevidAccepted
  \/ DevidMismatch
  \/ UploadBlock
  \/ UploadCrash
  \/ UploadFinish
  \/ DevReply
  \/ DevLose
  \/ DevCorrupt
  \/ DevTruncate(PACKSIZE - 1)

Spec == Init /\ [][Next]_vars

\* ------------------------------------------------------------------------
\* Properties of the session

IsWrite(i) == hist[i].ev = "write"
IsAccept(i) == hist[i].ev = "accept"
\* byte 0 of the packet of history entry i: the command code, 0 for a block
Kind(i) == hist[i].pkt[1]

\* C5: the channel is closed on every exit path taken after it was opened:
\* success, device mismatch, and a full-size reply failing the checksum
\* inside send_cmd.
C5_ClosedOnEveryExit ==
  (pc = "exit" /\ op \in {"done", "no_device", "checksum_fail"}) => ~open

\* C6: a full-size reply with a wrong checksum on the GET_DEVICEID exchange
\* aborts the session with the checksum-mismatch error, which is neither the
\* device-not-recognized error nor any other, before any UPDATE_APROM packet
\* is written.
C6_DevidChecksumError ==
  (op = "checksum_fail" /\ arg = CMD_GET_DEVICEID) =>
    /\ pc = "exit"
    /\ err \in {"ChecksumError", "ChecksumEerror"}
    /\ \A i \in 1..Len(hist) : ~(IsWrite(i) /\ Kind(i) = CMD_UPDATE_APROM)

\* C7: an UPDATE_APROM packet, a data block or a RUN_APROM packet is written
\* only after a GET_DEVICEID reply whose bytes 8-9 read little-endian 0x3650;
\* after a reply with any other identity the session has failed with
\* NoDevice and nothing further was written.
C7_ProgramOnlyKnownDevice ==
  /\ \A i \in 1..Len(hist) :
       (IsWrite(i) /\ Kind(i) \in {CMD_UPDATE_APROM, 0, CMD_RUN_APROM}) =>
         \E j \in 1..(i - 1) :
           /\ IsAccept(j) /\ Kind(j) = CMD_GET_DEVICEID
           /\ hist[j].reply[9] + 256 * hist[j].reply[10] = N76E003_DEVID
  /\ \A j \in 1..Len(hist) :
       (/\ IsAccept(j) /\ Kind(j) = CMD_GET_DEVICEID
        /\ hist[j].reply[9] + 256 * hist[j].reply[10] # N76E003_DEVID) =>
         /\ j = Len(hist)
         /\ pc = "exit" /\ err = "NoDevice"

\* the target reported the identity with its bytes swapped and the session
\* failed with NoDevice
C7_Witness ==
  /\ pc = "exit" /\ err = "NoDevice" /\ devid = 20534
  /\ hist # << >> /\ IsAccept(Len(hist)) /\ Kind(Len(hist)) = CMD_GET_DEVICEID

\* the commands whose accepted reply comes right before the first write of a
\* packet whose byte 0 is k
Before(k) ==
  CASE k = CMD_SYNC_PACKNO -> {CMD_CONNECT}
    [] k = CMD_GET_DEVICEID -> {CMD_SYNC_PACKNO}
    [] k = CMD_UPDATE_APROM -> {CMD_GET_DEVICEID}
    [] k = 0 -> {CMD_UPDATE_APROM, 0}
    [] k = CMD_RUN_APROM -> {CMD_UPDATE_APROM, 0}
    [] OTHER -> {}

\* C8: the phases come in order.  Every write is a CONNECT written before any
\* reply was accepted, or a re-send of the packet written just before, or the
\* first write of a packet, which comes right after the accepted reply to
\* the packet of the phase before it (SYNC_PACKNO after CONNECT, GET_DEVICEID
\* after SYNC_PACKNO, UPDATE_APROM after GET_DEVICEID, a block after the block
\* before it, RUN_APROM after the last block).  RUN_APROM is written once, as
\* the last thing the session does, and nothing is read after it.
C8_PhaseOrder ==
  /\ \A i \in 1..Len(hist) : IsWrite(i) =>
       \/ /\ Kind(i) = CMD_CONNECT
          /\ \A j \in 1..(i - 1) : IsWrite(j) /\ Kind(j) = CMD_CONNECT
       \/ /\ i > 1 /\ hist[i - 1] = hist[i]
          /\ Kind(i) \notin {CMD_CONNECT, CMD_RUN_APROM}
       \/ /\ i > 1 /\ IsAccept(i - 1)
          /\ Kind(i - 1) \in Before(Kind(i))
  /\ \A i \in 1..Len(hist) : IsAccept(i) =>
       /\ i > 1 /\ IsWrite(i - 1) /\ hist[i - 1].pkt = hist[i].pkt
  /\ \A i \in 1..Len(hist) : (IsWrite(i) /\ Kind(i) = CMD_RUN_APROM) =>
       /\ i = Len(hist)
       /\ pc = "exit" /\ err = "none"
       /\ hist[i - 1].pkt = blocks[Len(blocks)]
       /\ rx = hist[i - 1].reply
  /\ (pc = "exit" /\ err = "none") =>
       /\ hist # << >> /\ IsWrite(Len(hist))
       /\ Kind(Len(hist)) = CMD_RUN_APROM

\* a session that needed a second CONNECT and a re-send inside send_cmd
\* went through every phase and wrote RUN_APROM
C8_Witness ==
  /\ pc = "exit" /\ err = "none"
  /\ Len(blocks) >= 2
  /\ \E i \in 2..Len(hist) : hist[i - 1] = hist[i]
  /\ \E i \in 2..Len(hist) : Kind(i) = CMD_CONNECT /\ Kind(i - 1) = CMD_CONNECT

\* ------------------------------------------------------------------------
\* The session with a target that is listening, reports the supported chip
\* and answers every packet before the next poll; images of every length up
\* to MaxFlen.

InitUpload ==
  /\ pc = "connect"
  /\ seq_num = 0 /\ ncalls = 0
  /\ tx = << >> /\ rx = << >> /\ tries = 0
  /\ data \in UploadImages /\ ipos = 0
  /\ open = TRUE /\ err = "none"
  /\ inbuf = << >> /\ wire = << >>
  /\ devid = N76E003_DEVID /\ faults = 0
  /\ hist = << >> /\ blocks = << >>
  /\ ok = FALSE /\ wasOk = FALSE /\ op = "init" /\ arg = 0

NextUpload ==
  \/ ConnectSend
  \/ ConnectAccept
  \/ SyncAccepted
  \/ DevidAccepted
  \/ UploadBlock
  \/ UploadCrash
  \/ UploadFinish
  \/ DevReply

SpecUpload == InitUpload /\ [][NextUpload]_vars

\* the image bytes carried by the j-th packet update_aprom sent: what
\* follows the 16-byte header of the first, the 8-byte header of the others
Payload(j) ==
  IF j = 1 THEN SubSeq(blocks[1], 17, Len(blocks[1]))
  ELSE SubSeq(blocks[j], 9, Len(blocks[j]))

RECURSIVE PayloadsUpTo(_)
PayloadsUpTo(j) == IF j = 0 THEN << >> ELSE PayloadsUpTo(j - 1) \o Payload(j)

\* C9: for an image of flen >= 48 bytes the first block carries image[0:48]
\* and every later block carries 56 bytes, the next image bytes in order and
\* zeros once the image is exhausted; only the final block holds padding;
\* the payloads of all blocks, cut to flen bytes, are the image.
C9_BlocksRebuildImage ==
  (Len(data) >= FIRST_BLOCK /\ blocks # << >>) =>
    /\ Payload(1) = SubSeq(data, 1, FIRST_BLOCK)
    /\ \A j \in 2..Len(blocks) :
         /\ Len(Payload(j)) = BLOCK
         /\ \A i \in 1..BLOCK :
              LET at == FIRST_BLOCK + BLOCK * (j - 2) + i
              IN  Payload(j)[i] = IF at <= Len(data) THEN data[at] ELSE 0
    /\ \A j \in 2..(Len(blocks) - 1) :
         FIRST_BLOCK + BLOCK * (j - 1) <= Len(data)
    /\ (pc = "exit" /\ err = "none") =>
         /\ Len(PayloadsUpTo(Len(blocks))) >= Len(data)
         /\ SubSeq(PayloadsUpTo(Len(blocks)), 1, Len(data)) = data

\* the image of 130 bytes was sent as 48 bytes, 56 bytes, and 26 bytes
\* followed by 30 zero bytes
C9_Witness ==
  /\ pc = "exit" /\ err = "none"
  /\ Len(data) = 130 /\ Len(blocks) = 3
  /\ SubSeq(Payload(3), 1, 26) = SubSeq(data, 105, 130)
  /\ SubSeq(Payload(3), 27, 56) = ZeroBytes(30)

\* C10: an image of 48 + 56*k bytes is sent as the first block and exactly k
\* 56-byte blocks, all of them full of image bytes; no padded or all-zero
\* block follows.
C10_NoExtraBlock ==
  (/\ pc = "exit" /\ err = "none"
   /\ Len(data) >= FIRST_BLOCK
   /\ (Len(data) - FIRST_BLOCK) % BLOCK = 0) =>
    /\ Len(blocks) = 1 + (Len(data) - FIRST_BLOCK) \div BLOCK
    /\ \A j \in 2..Len(blocks) : FIRST_BLOCK + BLOCK * (j - 1) <= Len(data)

\* ------------------------------------------------------------------------
\* Failure paths, polling and re-sending

\* C11: the session fails only through a full-size reply failing the checksum
\* inside send_cmd or through a device identity other than 0x3650; a poll
\* that finds no reply, a short one or one of the wrong length, and a bad
\* reply while connecting, never end the session.
C11_FailsOnlyTwoWays ==
  /\ (pc = "exit" /\ err # "none") => op \in {"checksum_fail", "no_device"}
  /\ op \in {"connect_retry", "poll_short", "short_read"} => pc # "exit"


\* C12: send_cmd returns a reply only when it was read as exactly PACKSIZE
\* bytes and carries the checksum of tx; a read of PACKSIZE bytes that fails
\* the checksum ends send_cmd at once, with no further poll and no further
\* write of tx; a read of fewer than PACKSIZE bytes leaves send_cmd polling,
\* without failing.
C12_ReturnsOnlyVerified ==
  /\ [](\A i \in 1..Len(hist) :
          (IsAccept(i) /\ Kind(i) # CMD_CONNECT) =>
            /\ Len(hist[i].reply) = PACKSIZE
            /\ hist[i].reply[1] + 256 * hist[i].reply[2]
                 = SumAll(hist[i].pkt) % 65536)
  /\ [][op' = "checksum_fail" =>
          /\ pc \in Callers /\ pc' = "exit" /\ err' # "none"
          /\ Len(rx') = PACKSIZE
          /\ rx'[1] + 256 * rx'[2] # SumAll(tx) % 65536
          /\ hist' = hist /\ wire' = wire /\ tries' = tries]_vars
  /\ [][pc = "exit" => (pc' = "exit" /\ hist' = hist /\ rx' = rx)]_vars
  /\ [][op' = "short_read" =>
          /\ Len(rx') < PACKSIZE
          /\ pc' = pc /\ pc' \in Callers /\ err' = "none"
          /\ hist' = hist /\ tries' = tries]_vars

\* send_cmd, after re-sending tx, read a full-size reply that failed the
\* checksum and ended the session
C12_Witness ==
  /\ op = "checksum_fail" /\ pc = "exit"
  /\ Len(rx) = PACKSIZE /\ tries > RESEND_AFTER


\* the reply r carries the checksum of packet p in its first two bytes
Echoes(r, p) == Len(r) >= 2 /\ r[1] + 256 * r[2] = SumAll(p) % 65536

\* C13: connect_req leaves the Connecting phase only in an attempt in which
\* exactly PACKSIZE bytes had arrived and their first two bytes are the
\* checksum of the CONNECT packet written in that attempt; in every other
\* case it goes on to build and write a new CONNECT packet, and no count of
\* attempts stops it.
C13_ConnectOnlyOnOwnReply ==
  /\ [](\A i \in 1..Len(hist) :
          (IsAccept(i) /\ Kind(i) = CMD_CONNECT) =>
            /\ Len(hist[i].reply) = PACKSIZE
            /\ Echoes(hist[i].reply, hist[i].pkt)
            /\ i > 1 /\ hist[i - 1] = Wr(hist[i].pkt)
            /\ \A j \in 1..(i - 1) : SeqField(hist[j].pkt) <= SeqField(hist[i].pkt))
  /\ [][pc = "connect_wait" /\ pc' # "connect_wait" =>
          IF Len(inbuf) = PACKSIZE /\ Echoes(inbuf, tx)
          THEN pc' = "sync"
          ELSE pc' = "connect" /\ inbuf' = << >> /\ hist' = hist]_vars
  /\ [][pc = "connect" /\ pc' # "connect" =>
          /\ pc' = "connect_wait"
          /\ tx'[1] = CMD_CONNECT /\ SeqField(tx') = ncalls + 1
          /\ hist' = Append(hist, Wr(tx'))]_vars
  /\ [](pc = "connect" /\ ncalls < MaxConnect => ENABLED ConnectSend)

\* an attempt was repeated because the PACKSIZE bytes that arrived carried
\* the checksum of the attempt before it
C13_Witness ==
  /\ op = "connect_retry" /\ pc = "connect"
  /\ Len(rx) = PACKSIZE /\ ~Echoes(rx, tx)
  /\ \E i \in 1..Len(hist) :
       IsWrite(i) /\ Kind(i) = CMD_CONNECT /\ Echoes(rx, hist[i].pkt)


\* the last reply accepted so far, as an index of hist (0: none yet)
LastAccept ==
  IF \E i \in 1..Len(hist) : IsAccept(i)
  THEN CHOOSE i \in 1..Len(hist) :
         IsAccept(i) /\ \A j \in (i + 1)..Len(hist) : ~IsAccept(j)
  ELSE 0

\* how often the running send_cmd call has written tx
TxWrites ==
  Cardinality({i \in (LastAccept + 1)..Len(hist) : hist[i] = Wr(tx)})

\* C14 as stated: within one send_cmd call tx is written once up front, not
\* again during the first 5 failed polls, and then once every 5 failed polls,
\* so that k re-sends take at least 5 * k failed polls.
C14_ResendEveryFive ==
  pc \in Callers =>
    /\ TxWrites >= 1
    /\ tries <= RESEND_AFTER => TxWrites = 1
    /\ tries >= RESEND_AFTER * (TxWrites - 1)

\* C14 amended: within one send_cmd call tx is written once up front, not
\* again during the first 5 failed polls, and from the 6th failed poll on it
\* is written again at every failed poll (the counter is never reset); the
\* call has no limit on failed polls, so the number of re-sends is unbounded.
C14_ResendEveryPollAfterFive ==
  /\ [](pc \in Callers =>
          /\ (LastAccept + 1)..Len(hist) # {}
          /\ \A i \in (LastAccept + 1)..Len(hist) : hist[i] = Wr(tx)
          /\ TxWrites = 1 + (IF tries > RESEND_AFTER
                             THEN tries - RESEND_AFTER ELSE 0))
  /\ [][op' = "poll_short" =>
          /\ tries' = tries + 1 /\ pc' = pc /\ tx' = tx
          /\ hist' = IF tries' > RESEND_AFTER
                     THEN Append(hist, Wr(tx)) ELSE hist]_vars
  /\ [](pc \in Callers /\ Len(inbuf) < PACKSIZE /\ tries < MaxTries
          => ENABLED PollShort)

\* two re-sends one failed poll apart
C14_Witness ==
  /\ pc \in Callers /\ op = "poll_short"
  /\ tries = RESEND_AFTER + 2 /\ TxWrites = 3


\* ------------------------------------------------------------------------
\* The upload loop's trailing block and packet sizes

\* the image byte (0-based) at which the j-th packet's payload starts
BlockStart(j) == IF j = 1 THEN 0 ELSE FIRST_BLOCK + BLOCK * (j - 2)

\* the upload ran to its end
UploadDone == pc = "exit" /\ err = "none" /\ op = "done"

\* C15 as stated: whenever flen is a positive exact multiple of 56 the loop
\* sends one extra trailing block that holds no image bytes, only zeros.
C15_ExtraBlockAtMultipleOf56 ==
  (UploadDone /\ Len(data) > 0 /\ Len(data) % BLOCK = 0) =>
    /\ Len(blocks) >= 2
    /\ BlockStart(Len(blocks)) >= Len(data)
    /\ Payload(Len(blocks)) = ZeroBytes(BLOCK)

\* C15 amended: whenever flen = 48 + 56*k for some k >= 0 the loop sends,
\* after the k + 1 blocks that carry the image, one extra trailing block that
\* holds no image bytes, only zeros; for every other flen > 48 the last block
\* carries at least one image byte, and for flen < 48 the loop sends nothing.
C15_ExtraBlockAt48Plus56k ==
  UploadDone =>
    /\ (Len(data) >= FIRST_BLOCK /\ (Len(data) - FIRST_BLOCK) % BLOCK = 0) =>
         /\ Len(blocks) = 2 + (Len(data) - FIRST_BLOCK) \div BLOCK
         /\ BlockStart(Len(blocks)) = Len(data)
         /\ blocks[Len(blocks)] = ZeroBytes(PACKSIZE)
    /\ (Len(data) > FIRST_BLOCK /\ (Len(data) - FIRST_BLOCK) % BLOCK # 0) =>
         /\ Len(blocks) >= 2
         /\ BlockStart(Len(blocks)) < Len(data)
    /\ Len(data) < FIRST_BLOCK => Len(blocks) = 1

\* the image of 104 = 48 + 56 bytes was followed by an all-zero block
C15_Witness ==
  /\ UploadDone
  /\ Len(data) = FIRST_BLOCK + BLOCK /\ Len(blocks) = 3
  /\ Payload(2) = SubSeq(data, FIRST_BLOCK + 1, FIRST_BLOCK + BLOCK)
  /\ blocks[3] = ZeroBytes(PACKSIZE)


\* C16: every packet update_aprom hands to the transport, the UPDATE_APROM
\* packet and every data block after it, is exactly PACKSIZE bytes long,
\* whatever the image length.
C16_UploadPacketsArePacksize ==
  \A j \in 1..Len(blocks) : Len(blocks[j]) = PACKSIZE


\* ------------------------------------------------------------------------
\* update_aprom's packet building alone (lines 131-151), the replies taken
\* as accepted, over image lengths around 48, 256 and 2^16

BuildLens == {0, 1, 47, 48, 49, 56, 104, 255, 256, 257, 4095,
              65535, 65536, 65537}

BuildImages == {Image(n, k) : n \in BuildLens, k \in {1, 7}}

InitBuild ==
  /\ pc = "build_first"
  /\ data \in BuildImages /\ ipos = 0
  /\ tx = << >> /\ rx = << >> /\ blocks = << >>
  /\ seq_num = 0 /\ ncalls = 0 /\ tries = 0
  /\ open = TRUE /\ err = "none"
  /\ inbuf = << >> /\ wire = << >> /\ devid = N76E003_DEVID /\ faults = 0
  /\ hist = << >>
  /\ ok = FALSE /\ wasOk = FALSE /\ op = "init" /\ arg = 0

buildFrame == <<seq_num, rx, tries, data, open, err, inbuf, wire, devid,
                faults, hist, ncalls, ok, wasOk>>

\* lines 132-139: flen = len(data), ipos = 0, the UPDATE_APROM packet,
\* ipos += 48
BuildFirst ==
  /\ pc = "build_first"
  /\ tx' = FirstPacket(data)
  /\ blocks' = <<FirstPacket(data)>>
  /\ ipos' = ipos + FIRST_BLOCK
  /\ pc' = "build_loop"
  /\ op' = "first_built" /\ arg' = Len(data)
  /\ UNCHANGED buildFrame

\* lines 141-151: one turn of the loop
BuildBlock ==
  /\ pc = "build_loop"
  /\ LoopContinues(ipos, Len(data))
  /\ Len(blocks) < MaxBlocks
  /\ tx' = BlockPacket(data, ipos)
  /\ blocks' = Append(blocks, BlockPacket(data, ipos))
  /\ ipos' = ipos + BLOCK
  /\ op' = "block_built" /\ arg' = ipos
  /\ UNCHANGED pc
  /\ UNCHANGED buildFrame

\* line 141: the loop condition fails
BuildEnd ==
  /\ pc = "build_loop"
  /\ ~LoopContinues(ipos, Len(data))
  /\ pc' = "build_done"
  /\ op' = "built" /\ arg' = Len(blocks)
  /\ UNCHANGED <<tx, blocks, ipos>>
  /\ UNCHANGED buildFrame

NextBuild ==
  \/ BuildFirst
  \/ BuildBlock
  \/ BuildEnd

SpecBuild == InitBuild /\ [][NextBuild]_vars

\* C17: the UPDATE_APROM packet has byte 0 = 0xA0, bytes 1-11 zero, bytes
\* 12-13 the little-endian 16-bit encoding of flen (flen itself below 2^16,
\* flen mod 2^16 otherwise), bytes 14-15 zero and the first image bytes from
\* byte 16 on; every following block is 8 zero bytes and then 56 payload
\* bytes, the image bytes at the cursor and zeros past the image's end.
C17_UpdatePacketLayout ==
  blocks # << >> =>
    LET first == blocks[1]
        flen == Len(data)
        field == first[13] + 256 * first[14]
    IN  /\ first[1] = 160
        /\ \A i \in 2..12 : first[i] = 0
        /\ first[13] \in 0..255 /\ first[14] \in 0..255
        /\ field = flen % 65536
        /\ flen < 65536 => field = flen
        /\ first[15] = 0 /\ first[16] = 0
        /\ Len(first) = 16 + Min(flen, 48)
        /\ \A i \in 1..Min(flen, 48) : first[16 + i] = data[i]
        /\ \A j \in 2..Len(blocks) :
             /\ Len(blocks[j]) = 8 + 56
             /\ \A i \in 1..8 : blocks[j][i] = 0
             /\ \A i \in 1..56 :
                  LET at == 48 + 56 * (j - 2) + i
                  IN  blocks[j][8 + i] = IF at <= flen THEN data[at] ELSE 0

\* the length field of an image of 2^16 + 1 bytes reads 1
C17_Witness ==
  /\ op = "first_built"
  /\ Len(data) = 65537 /\ SubSeq(blocks[1], 13, 14) = <<1, 0>>


\* ------------------------------------------------------------------------
\* The session over a faithful channel: the target answers every packet it
\* receives with Reply, nothing is lost, damaged or cut short; a reply may
\* arrive any number of polls after its packet was written.

NextFaithful ==
  \/ ConnectSend
  \/ ConnectRetry
  \/ ConnectAccept
  \/ PollShort
  \/ PollChecksumFail
  \/ SyncAccepted
  \/ DevidAccepted
  \/ DevidMismatch
  \/ UploadBlock
  \/ UploadCrash
  \/ UploadFinish
  \/ DevReply

SpecFaithful == Init /\ [][NextFaithful]_vars

\* C18: over the faithful channel the session never fails with a checksum
\* error: no reply read by send_cmd is one that answers an earlier packet
\* (a repeated CONNECT or a re-sent tx) rather than the packet being sent.
C18_NoChecksumErrorWhenFaithful ==
  /\ op # "checksum_fail"
  /\ \A i \in 1..Len(hist) :
       IsAccept(i) => Echoes(hist[i].reply, hist[i].pkt)


\* ------------------------------------------------------------------------
\* Termination and the sequence counter

\* C19: with every command answered by exactly one valid reply and the
\* identity 0x3650, a session with an image of any length ends only by
\* finishing: the 100% report is made without an exception, RUN_APROM is the
\* last packet written and the session is Done.
C19_EndsOnlyDone ==
  pc = "exit" =>
    /\ err = "none" /\ op = "done"
    /\ hist # << >>
    /\ hist[Len(hist)].ev = "write"
    /\ hist[Len(hist)].pkt[1] = CMD_RUN_APROM


\* the CONNECT attempts made so far
ConnectWrites ==
  Cardinality({i \in 1..Len(hist) : IsWrite(i) /\ Kind(i) = CMD_CONNECT})

\* the steps in which cmd_packet is called
CmdPacketSteps == {"connect_send", "connected", "synced", "done"}

\* C20: the sequence counter changes only in a call of cmd_packet, by one,
\* and that call's packet carries the new value; polls, re-sends, checksum
\* verification, the identity check and all of update_aprom leave it alone.
\* So the UPDATE_APROM packet and the data blocks carry zeros at bytes 4-5,
\* and with n CONNECT attempts SYNC_PACKNO carries n+1, GET_DEVICEID n+2 and
\* RUN_APROM n+3.
C20_SeqOnlyByCmdPacket ==
  /\ [][IF op' \in CmdPacketSteps
        THEN /\ seq_num' = seq_num + 1
             /\ tx'[1] \in CommandCodes
             /\ SeqField(tx') = seq_num' % 65536
        ELSE seq_num' = seq_num]_vars
  /\ [](\A j \in 1..Len(blocks) : blocks[j][5] = 0 /\ blocks[j][6] = 0)
  /\ [](\A i \in 1..Len(hist) :
          /\ Kind(i) \in {CMD_UPDATE_APROM, 0} => SeqField(hist[i].pkt) = 0
          /\ Kind(i) = CMD_SYNC_PACKNO =>
               SeqField(hist[i].pkt) = (ConnectWrites + 1) % 65536
          /\ Kind(i) = CMD_GET_DEVICEID =>
               SeqField(hist[i].pkt) = (ConnectWrites + 2) % 65536
          /\ Kind(i) = CMD_RUN_APROM =>
               SeqField(hist[i].pkt) = (ConnectWrites + 3) % 65536)
  /\ [](seq_num = ncalls)

\* a session that connected at a later attempt and re-sent a packet inside
\* send_cmd finished with RUN_APROM numbered three past the attempts
C20_Witness ==
  /\ op = "done" /\ err = "none"
  /\ ConnectWrites >= 2
  /\ tx[1] = CMD_RUN_APROM /\ SeqField(tx) = ConnectWrites + 3
  /\ blocks # << >>
  /\ \E i \in 1..(Len(hist) - 1) :
       IsWrite(i) /\ hist[i + 1] = hist[i] /\ Kind(i) # CMD_CONNECT

====
